---- MODULE Spec2Model ----
(***************************************************************************)
(* Model of src/main.py: UploadManager mirrors a local directory tree into *)
(* a remote repository.  One sequential process (run) walks the tree; the  *)
(* remote repository is a set of folder paths and a set of file paths; a   *)
(* node ref is modelled by the path of names that leads to the node, the   *)
(* document library being the empty path.  Every remote request is one     *)
(* action whose response is chosen by the remote: success, 409 Conflict    *)
(* when the name is taken, or a transient failure.                         *)
(***************************************************************************)
EXTENDS Integers, Sequences, FiniteSets, TLC

\* ------------------------------------------------------------------ bounds
\* number of program invocations in a row against the same remote
MaxRuns == 2
\* number of nodes another writer adds to the remote during the first run
MaxWrites == 1

\* --------------------------------------------------------------- constants
\* max_retries in get_document_library_node, ensure_folder, file_exists, upload_file
MaxRetries == 3
\* retry_delay in get_document_library_node
ConnectDelay == 5
\* retry_delay in ensure_folder, file_exists, upload_file
RetryDelay == 900

\* ------------------------------------------------------------- local tree
\* A local file: base name, size on disk, and whether os.path.getsize works.
LocalFile(n, s, r) == [name |-> n, size |-> s, readable |-> r]
\* One entry of os.walk: the directory's path relative to LOCAL_DIR, its files.
WalkEntry(p, fs) == [path |-> p, files |-> fs]

\* The local trees of the model, each given as its os.walk sequence (top-down).
LocalTrees ==
  << \* root/{f (100 bytes), a/g (200 bytes)}
     << WalkEntry(<<>>, << LocalFile("f", 100, TRUE) >>),
        WalkEntry(<<"a">>, << LocalFile("g", 200, TRUE) >>) >>,
     \* root/{a/{g, b/f}, b/}
     << WalkEntry(<<>>, << >>),
        WalkEntry(<<"a">>, << LocalFile("g", 200, TRUE) >>),
        WalkEntry(<<"a", "b">>, << LocalFile("f", 100, TRUE) >>),
        WalkEntry(<<"b">>, << >>) >>,
     \* root/{g, f (size unreadable)}
     << WalkEntry(<<>>, << LocalFile("g", 200, TRUE), LocalFile("f", 100, FALSE) >>) >>
  >>

\* ----------------------------------------------------------- remote state
\* The document library node returned by get_document_library_node.
DocLib == << >>

\* Initial remote states: folders (the document library included) and files.
RemoteInits ==
  { [folders |-> {DocLib}, files |-> {}],
    [folders |-> {DocLib, <<"c">>}, files |-> {<<"a">>}],
    [folders |-> {DocLib}, files |-> {<<"a">>}],
    [folders |-> {DocLib, <<"f">>}, files |-> {}] }

\* Names the other writer may use, and the order the remote lists names in.
NameOrder == << "a", "b", "c", "f", "g" >>
Names == { NameOrder[i] : i \in 1..Len(NameOrder) }
Rank(n) == CHOOSE i \in 1..Len(NameOrder) : NameOrder[i] = n

VARIABLES
  tree,            \* index of the local tree in LocalTrees
  folders,         \* remote: set of folder paths
  files,           \* remote: set of file paths
  writes,          \* number of nodes the other writer has added
  run,             \* number of the current invocation
  prev,            \* whether the previous invocation succeeded, and its totals
  start_empty,     \* the remote held nothing but the document library when the run began
  conflicts,       \* << parent, name >> of the create-folder requests answered 409 in this run
  pc,              \* position of the process
  stats,           \* self.stats
  session,         \* self.session: 0 is None, else a session object
  open,            \* session objects that are not closed
  local_session,   \* local variable session of upload_file (0: unset)
  start_time,      \* self.start_time is set
  di, pi, fi,      \* position of the walk: directory, path segment, file
  current_parent,  \* current_parent of upload_directory
  resolved,        \* the ensure_folder calls returned for the current directory
  attempt,         \* attempt of get_document_library_node / ensure_folder / file_exists
  uf_attempt,      \* attempt of upload_file
  made,            \* sessions constructed by the current inner retry loop
  uf_made,         \* sessions constructed by upload_file's own loop
  fails,           \* transient failures for the current folder or file, by request
  reqs,            \* requests issued for the current folder or file, by request
  saw409,          \* the current operation has received a 409
  fatal,           \* the error that aborted the run, or "none"
  stats0,          \* self.stats when the current ensure_folder or upload_file call began
  outcome,         \* how the last upload_file call ended
  slept,           \* duration of the last time.sleep of the current operation
  closed_use,      \* a request was sent on a session that was already closed
  report           \* the statistics show_final_report has printed, in order

vars == << tree, folders, files, writes, run, prev, start_empty, conflicts, pc, stats, session, open,
           local_session, start_time, di, pi, fi, current_parent, resolved,
           attempt, uf_attempt, made, uf_made, fails, reqs, saw409, fatal,
           stats0, outcome, slept, closed_use, report >>

walk == LocalTrees[tree]

\* ----------------------------------------------------------------- helpers
\* calculate_total_files_and_size: an unreadable size counts the file, adds 0 bytes
RECURSIVE ScanFiles(_)
ScanFiles(fs) ==
  IF fs = << >> THEN [n |-> 0, bytes |-> 0]
  ELSE LET r == ScanFiles(Tail(fs)) IN
       [n |-> r.n + 1,
        bytes |-> r.bytes + (IF Head(fs).readable THEN Head(fs).size ELSE 0)]

\* `for root, dirs, files in os.walk(local_dir)` of the pre-scan
RECURSIVE WalkTotals(_)
WalkTotals(w) ==
  IF w = << >> THEN [n |-> 0, bytes |-> 0]
  ELSE LET h == ScanFiles(Head(w).files)
           r == WalkTotals(Tail(w)) IN
       [n |-> h.n + r.n, bytes |-> h.bytes + r.bytes]

\* variant: the pre-scan leaves out the files of the top directory
TotalsBelowRoot(w) == WalkTotals(Tail(w))

calculate_total_files_and_size(w) == WalkTotals(w)

\* Names of the children of parent among the paths of a set.
ChildNames(parent, S) ==
  { p[Len(p)] : p \in { q \in S : /\ Len(q) = Len(parent) + 1
                                  /\ SubSeq(q, 1, Len(parent)) = parent } }

\* The remote refuses a create with 409 when the name is taken under parent.
NameTaken(parent, name) == Append(parent, name) \in (folders \cup files)

\* The document library has no child.
RemoteIsEmpty == folders = {DocLib} /\ files = {}

\* entries[0] of a folder listing: the remote lists by ascending name.
FirstEntry(ns) == CHOOSE n \in ns : \A m \in ns : Rank(n) <= Rank(m)

InitialStats ==
  [total_files |-> 0, uploaded_files |-> 0, skipped_files |-> 0,
   created_folders |-> 0, skipped_folders |-> 0, total_size_bytes |-> 0,
   uploaded_size_bytes |-> 0, skipped_size_bytes |-> 0]

NoCounts == [ef |-> 0, fe |-> 0, up |-> 0]

\* what a run leaves for the claims about the run after it
NoRun == [ok |-> FALSE, total_files |-> 0, total_size_bytes |-> 0]

\* ---------------------------------------------------------------- sessions
SessionIds == 1..3

\* variant: create_session does not close the previous session
KeepPrevious(o, s) == o

\* session.close() of the previous session in create_session
ClosePrevious(o, s) == o \ {s}

\* requests.Session(): a session object that nothing refers to
NewSession == CHOOSE s \in SessionIds : s \notin {session, local_session}

\* create_session: closes self.session if set, then opens a new one
CreateSessionOpen == ClosePrevious(open, session) \cup {NewSession}

Init ==
  /\ tree \in 1..Len(LocalTrees)
  /\ \E r \in RemoteInits : folders = r.folders /\ files = r.files
  /\ writes = 0
  /\ run = 1
  /\ prev = NoRun
  /\ start_empty = RemoteIsEmpty
  /\ conflicts = {}
  /\ pc = "gd_try"
  /\ stats = InitialStats
  /\ session = 0
  /\ open = {}
  /\ local_session = 0
  /\ start_time = FALSE
  /\ di = 1 /\ pi = 1 /\ fi = 1
  /\ current_parent = DocLib
  /\ resolved = << >>
  /\ attempt = 0
  /\ uf_attempt = 0
  /\ made = 0
  /\ uf_made = 0
  /\ fails = NoCounts
  /\ reqs = NoCounts
  /\ saw409 = FALSE
  /\ fatal = "none"
  /\ stats0 = InitialStats
  /\ outcome = "none"
  /\ slept = 0
  /\ closed_use = FALSE
  /\ report = << >>


\* ------------------------------------------------------- shared fragments
remote == << folders, files, writes >>
runvars == << tree, run, prev, start_empty >>
walkpos == << di, pi, fi, current_parent, resolved >>

\* the directory, path segment and file the walk is at
parts == walk[di].path
folder_name == parts[pi]
file == walk[di].files[fi]
file_name == file.name
file_size == file.size

\* variant: one more attempt than max_retries
CanRetryOnceMore(a) == a < MaxRetries
\* `attempt < max_retries - 1`: another attempt follows a transient failure
CanRetry(a) == a < MaxRetries - 1

\* variant: every sleep lasts the base delay
BackoffFlat(delay, a) == delay
\* time.sleep(retry_delay * (attempt + 1))
Backoff(delay, a) == delay * (a + 1)

\* self.stats updates
\* variant: a folder that is already there is not counted
SkippedFolderNotCounted(s) == s
CountSkippedFolder(s) == [s EXCEPT !.skipped_folders = @ + 1]
\* variant: a created folder is counted as a skipped one
CountCreatedAsSkipped(s) == [s EXCEPT !.skipped_folders = @ + 1]
CountCreatedFolder(s) == [s EXCEPT !.created_folders = @ + 1]
\* variant: a skipped file is counted but its bytes are not
CountSkippedNoBytes(s, size) == [s EXCEPT !.skipped_files = @ + 1]
CountSkipped(s, size) ==
  [s EXCEPT !.skipped_files = @ + 1, !.skipped_size_bytes = @ + size]
\* variant: an uploaded file's bytes are added to the skipped bytes
CountUploadedAsSkippedBytes(s, size) ==
  [s EXCEPT !.uploaded_files = @ + 1, !.skipped_size_bytes = @ + size]
CountUploaded(s, size) ==
  [s EXCEPT !.uploaded_files = @ + 1, !.uploaded_size_bytes = @ + size]

\* variant: the loop over the segments stops one segment early
MorePartsButLast == pi < Len(parts)

\* `for part in parts` has a segment left
MoreParts == pi <= Len(parts)
\* `for file in files` has a file left
MoreFiles == fi <= Len(walk[di].files)

\* self.create_session(): self.session becomes a new open session
CreateSession ==
  /\ session' = NewSession
  /\ open' = CreateSessionOpen

\* a request on self.session (always the session just created or fetched)
SendOnCurrent == closed_use' = (closed_use \/ session \notin open)

\* variant: the exception is swallowed and the walk goes on with the next directory
RaiseAndGoOn(cause) ==
  /\ fatal' = cause
  /\ pc' = "walk"

\* an exception leaves run()'s try block: the walk is abandoned
Raise(cause) ==
  /\ fatal' = cause
  /\ pc' = "finally"

\* ensure_folder returns ref: `current_parent = self.ensure_folder(...)`;
\* how: the folder was found, created, or looked up after a 409
Return(ref, how) ==
  /\ resolved' = Append(resolved,
                        [parent |-> current_parent, name |-> folder_name,
                         ref |-> ref, by |-> how])
  /\ current_parent' = ref
  /\ pi' = pi + 1
  /\ pc' = "parts"

\* ------------------------------------------- get_document_library_node
GdTry ==
  /\ pc = "gd_try"
  /\ CreateSession
  /\ made' = made + 1
  /\ pc' = "gd_get"
  /\ UNCHANGED << remote, runvars, conflicts, walkpos, stats, local_session, start_time,
                  attempt, uf_attempt, uf_made, fails, reqs, saw409, fatal,
                  stats0, outcome, slept, closed_use, report >>

GdGetOk ==
  /\ pc = "gd_get"
  /\ SendOnCurrent
  /\ pc' = "scan"
  /\ UNCHANGED << remote, runvars, conflicts, walkpos, stats, session, open, local_session,
                  start_time, attempt, uf_attempt, made, uf_made, fails, reqs,
                  saw409, fatal, stats0, outcome, slept, report >>

GdGetFail ==
  /\ pc = "gd_get"
  /\ SendOnCurrent
  /\ IF CanRetry(attempt)
       THEN /\ slept' = Backoff(ConnectDelay, attempt)
            /\ attempt' = attempt + 1
            /\ pc' = "gd_try"
            /\ fatal' = fatal
       ELSE /\ Raise("connect")
            /\ UNCHANGED << slept, attempt >>
  /\ UNCHANGED << remote, runvars, conflicts, walkpos, stats, session, open, local_session,
                  start_time, uf_attempt, made, uf_made, fails, reqs, saw409,
                  stats0, outcome, report >>

\* ------------------------------------------------------ upload_directory
\* lines 379-391: the pre-scan
Scan ==
  /\ pc = "scan"
  /\ LET t == calculate_total_files_and_size(walk) IN
       stats' = [stats EXCEPT !.total_files = t.n, !.total_size_bytes = t.bytes]
  /\ start_time' = TRUE
  /\ di' = 1
  /\ pc' = "walk"
  /\ UNCHANGED << remote, runvars, conflicts, pi, fi, current_parent, resolved, session, open,
                  local_session, attempt, uf_attempt, made, uf_made, fails, reqs,
                  saw409, fatal, stats0, outcome, slept, closed_use, report >>

\* `for root, dirs, files in os.walk(local_dir)`: next directory, or the end
WalkDir ==
  /\ pc = "walk"
  /\ IF di <= Len(walk)
       THEN /\ current_parent' = DocLib
            /\ pi' = 1
            /\ resolved' = << >>
            /\ pc' = "parts"
       ELSE /\ pc' = "finally"
            /\ UNCHANGED << current_parent, pi, resolved >>
  /\ UNCHANGED << remote, runvars, conflicts, di, fi, stats, session, open, local_session,
                  start_time, attempt, uf_attempt, made, uf_made, fails, reqs,
                  saw409, fatal, stats0, outcome, slept, closed_use, report >>

\* `for part in parts`: call ensure_folder for the next segment, or go to the files
Parts ==
  /\ pc = "parts"
  /\ IF MoreParts
       THEN /\ pc' = "ef_try"
            /\ attempt' = 0
            /\ made' = 0
            /\ fails' = NoCounts
            /\ reqs' = NoCounts
            /\ saw409' = FALSE
            /\ slept' = 0
            /\ stats0' = stats
            /\ fi' = fi
       ELSE /\ pc' = "files"
            /\ fi' = 1
            /\ UNCHANGED << attempt, made, fails, reqs, saw409, slept, stats0 >>
  /\ UNCHANGED << remote, runvars, conflicts, di, pi, current_parent, resolved, stats, session,
                  open, local_session, start_time, uf_attempt, uf_made, fatal,
                  outcome, closed_use, report >>

\* `for file in files`: call upload_file for the next file, or leave the directory
Files ==
  /\ pc = "files"
  /\ IF MoreFiles
       THEN /\ pc' = "uf_begin"
            /\ di' = di
       ELSE /\ pc' = "walk"
            /\ di' = di + 1
  /\ UNCHANGED << remote, runvars, conflicts, pi, fi, current_parent, resolved, stats, session,
                  open, local_session, start_time, attempt, uf_attempt, made,
                  uf_made, fails, reqs, saw409, fatal, stats0, outcome, slept,
                  closed_use, report >>


\* --------------------------------------------------------- ensure_folder
\* the handlers of lines 257-274: sleep and try again, or re-raise
EfTransient ==
  IF CanRetry(attempt)
    THEN /\ slept' = Backoff(RetryDelay, attempt)
         /\ attempt' = attempt + 1
         /\ pc' = "ef_try"
         /\ fatal' = fatal
    ELSE /\ Raise("ensure_folder")
         /\ UNCHANGED << slept, attempt >>

\* lines 206-209: an attempt begins with a new session
EfTry ==
  /\ pc = "ef_try"
  /\ CreateSession
  /\ made' = made + 1
  /\ reqs' = [reqs EXCEPT !.ef = @ + 1]
  /\ pc' = "ef_get"
  /\ UNCHANGED << remote, runvars, conflicts, walkpos, stats, local_session, start_time,
                  attempt, uf_attempt, uf_made, fails, saw409, fatal, stats0,
                  outcome, slept, closed_use, report >>

\* lines 212-220: the folder listing answers; a folder of that name is reused
EfGetOk ==
  /\ pc = "ef_get"
  /\ SendOnCurrent
  /\ IF folder_name \in ChildNames(current_parent, folders)
       THEN /\ stats' = CountSkippedFolder(stats)
            /\ Return(Append(current_parent, folder_name), "found")
       ELSE /\ pc' = "ef_post"
            /\ UNCHANGED << stats, pi, current_parent, resolved >>
  /\ UNCHANGED << remote, runvars, conflicts, di, fi, session, open, local_session, start_time,
                  attempt, uf_attempt, made, uf_made, fails, reqs, saw409, fatal,
                  stats0, outcome, slept, report >>

\* line 213-214 fail with a transient error
EfGetFail ==
  /\ pc = "ef_get"
  /\ SendOnCurrent
  /\ fails' = [fails EXCEPT !.ef = @ + 1]
  /\ EfTransient
  /\ UNCHANGED << remote, runvars, conflicts, walkpos, stats, session, open, local_session,
                  start_time, uf_attempt, made, uf_made, reqs, saw409, stats0,
                  outcome, report >>

\* lines 223-230: the create request succeeds
EfPostOk ==
  /\ pc = "ef_post"
  /\ ~NameTaken(current_parent, folder_name)
  /\ SendOnCurrent
  /\ folders' = folders \cup {Append(current_parent, folder_name)}
  /\ stats' = CountCreatedFolder(stats)
  /\ Return(Append(current_parent, folder_name), "created")
  /\ UNCHANGED << files, writes, runvars, conflicts, di, fi, session, open, local_session,
                  start_time, attempt, uf_attempt, made, uf_made, fails, reqs,
                  saw409, fatal, stats0, outcome, slept, report >>

\* lines 232-236: the create request answers 409
EfPost409 ==
  /\ pc = "ef_post"
  /\ NameTaken(current_parent, folder_name)
  /\ SendOnCurrent
  /\ stats' = CountSkippedFolder(stats)
  /\ saw409' = TRUE
  /\ conflicts' = conflicts \cup {<< current_parent, folder_name >>}
  /\ pc' = "ef_requery"
  /\ UNCHANGED << remote, runvars, walkpos, session, open, local_session, start_time,
                  attempt, uf_attempt, made, uf_made, fails, reqs, fatal, stats0,
                  outcome, slept, report >>

\* lines 225-226 fail with a transient error; the remote may have created the
\* folder before the error reached the client
EfPostFail ==
  /\ pc = "ef_post"
  /\ SendOnCurrent
  /\ \E applied \in BOOLEAN :
       folders' = IF applied /\ ~NameTaken(current_parent, folder_name)
                    THEN folders \cup {Append(current_parent, folder_name)}
                    ELSE folders
  /\ fails' = [fails EXCEPT !.ef = @ + 1]
  /\ EfTransient
  /\ UNCHANGED << files, writes, runvars, conflicts, walkpos, stats, session, open,
                  local_session, start_time, uf_attempt, made, uf_made, reqs,
                  saw409, stats0, outcome, report >>

\* lines 239-247: the folder listing after a 409 answers
EfRequeryOk ==
  /\ pc = "ef_requery"
  /\ SendOnCurrent
  /\ LET entries == ChildNames(current_parent, folders) IN
       IF entries # {}
         THEN Return(Append(current_parent, FirstEntry(entries)), "conflict")
         ELSE /\ pc' = "ef_requery2"
              /\ UNCHANGED << pi, current_parent, resolved >>
  /\ UNCHANGED << remote, runvars, conflicts, di, fi, stats, session, open, local_session,
                  start_time, attempt, uf_attempt, made, uf_made, fails, reqs,
                  saw409, fatal, stats0, outcome, slept, report >>

\* lines 241-242 fail: the exception is raised inside the except clause
EfRequeryFail ==
  /\ pc = "ef_requery"
  /\ SendOnCurrent
  /\ fails' = [fails EXCEPT !.ef = @ + 1]
  /\ Raise("requery")
  /\ UNCHANGED << remote, runvars, conflicts, walkpos, stats, session, open, local_session,
                  start_time, attempt, uf_attempt, made, uf_made, reqs, saw409,
                  stats0, outcome, slept, report >>

\* lines 248-256: the unfiltered listing answers
EfRequery2Ok ==
  /\ pc = "ef_requery2"
  /\ SendOnCurrent
  /\ IF folder_name \in ChildNames(current_parent, folders)
       THEN /\ Return(Append(current_parent, folder_name), "conflict")
            /\ fatal' = fatal
       ELSE /\ Raise("not_found")
            /\ UNCHANGED << pi, current_parent, resolved >>
  /\ UNCHANGED << remote, runvars, conflicts, di, fi, stats, session, open, local_session,
                  start_time, attempt, uf_attempt, made, uf_made, fails, reqs,
                  saw409, stats0, outcome, slept, report >>

\* lines 249-250 fail
EfRequery2Fail ==
  /\ pc = "ef_requery2"
  /\ SendOnCurrent
  /\ fails' = [fails EXCEPT !.ef = @ + 1]
  /\ Raise("requery")
  /\ UNCHANGED << remote, runvars, conflicts, walkpos, stats, session, open, local_session,
                  start_time, attempt, uf_attempt, made, uf_made, reqs, saw409,
                  stats0, outcome, slept, report >>


\* ----------------------------------------------- upload_file, file_exists
\* the handlers of lines 341-358: sleep and try again, or re-raise
UfTransient ==
  IF CanRetry(uf_attempt)
    THEN /\ slept' = Backoff(RetryDelay, uf_attempt)
         /\ uf_attempt' = uf_attempt + 1
         /\ pc' = "uf_try"
         /\ fatal' = fatal
    ELSE /\ Raise("upload_file")
         /\ UNCHANGED << slept, uf_attempt >>

\* lines 299-305: os.path.getsize before any network call
UfBegin ==
  /\ pc = "uf_begin"
  /\ IF file.readable
       THEN /\ pc' = "uf_try"
            /\ fatal' = fatal
       ELSE Raise("getsize")
  /\ uf_attempt' = 0
  /\ uf_made' = 0
  /\ fails' = NoCounts
  /\ reqs' = NoCounts
  /\ saw409' = FALSE
  /\ slept' = 0
  /\ stats0' = stats
  /\ outcome' = "none"
  /\ UNCHANGED << remote, runvars, conflicts, walkpos, stats, session, open, local_session,
                  start_time, attempt, made, closed_use, report >>

\* lines 307-312: an attempt begins with a new session, then calls file_exists
UfTry ==
  /\ pc = "uf_try"
  /\ CreateSession
  /\ local_session' = NewSession
  /\ uf_made' = uf_made + 1
  /\ attempt' = 0
  /\ made' = 0
  /\ pc' = "fe_try"
  /\ UNCHANGED << remote, runvars, conflicts, walkpos, stats, start_time, uf_attempt, fails,
                  reqs, saw409, fatal, stats0, outcome, slept, closed_use, report >>

\* lines 281-284: an attempt of file_exists begins with a new session
FeTry ==
  /\ pc = "fe_try"
  /\ CreateSession
  /\ made' = made + 1
  /\ reqs' = [reqs EXCEPT !.fe = @ + 1]
  /\ pc' = "fe_get"
  /\ UNCHANGED << remote, runvars, conflicts, walkpos, stats, local_session, start_time,
                  attempt, uf_attempt, uf_made, fails, saw409, fatal, stats0,
                  outcome, slept, closed_use, report >>

\* lines 285-291 and 312-317: the file listing answers
FeGetOk ==
  /\ pc = "fe_get"
  /\ SendOnCurrent
  /\ IF file_name \in ChildNames(current_parent, files)
       THEN /\ stats' = CountSkipped(stats, file_size)
            /\ outcome' = "skipped"
            /\ pc' = "uf_done"
       ELSE /\ pc' = "uf_post"
            /\ UNCHANGED << stats, outcome >>
  /\ UNCHANGED << remote, runvars, conflicts, walkpos, session, open, local_session, start_time,
                  attempt, uf_attempt, made, uf_made, fails, reqs, saw409, fatal,
                  stats0, slept, report >>

\* lines 292-297: the file listing fails; after the last attempt the exception
\* reaches the handlers of upload_file (lines 341-358)
FeGetFail ==
  /\ pc = "fe_get"
  /\ SendOnCurrent
  /\ fails' = [fails EXCEPT !.fe = @ + 1]
  /\ IF CanRetry(attempt)
       THEN /\ slept' = Backoff(RetryDelay, attempt)
            /\ attempt' = attempt + 1
            /\ pc' = "fe_try"
            /\ UNCHANGED << fatal, uf_attempt >>
       ELSE /\ UfTransient
            /\ attempt' = attempt
  /\ UNCHANGED << remote, runvars, conflicts, walkpos, stats, session, open, local_session,
                  start_time, made, uf_made, reqs, saw409, stats0, outcome, report >>

\* a request on upload_file's local variable session
SendOnLocal == closed_use' = (closed_use \/ local_session \notin open)

\* lines 319-332: the upload succeeds
UfPostOk ==
  /\ pc = "uf_post"
  /\ ~NameTaken(current_parent, file_name)
  /\ SendOnLocal
  /\ files' = files \cup {Append(current_parent, file_name)}
  /\ reqs' = [reqs EXCEPT !.up = @ + 1]
  /\ stats' = CountUploaded(stats, file_size)
  /\ outcome' = "uploaded"
  /\ pc' = "uf_done"
  /\ UNCHANGED << folders, writes, runvars, conflicts, walkpos, session, open, local_session,
                  start_time, attempt, uf_attempt, made, uf_made, fails, saw409,
                  fatal, stats0, slept, report >>

\* lines 335-340: `if e.response.status_code == 409`: the file counts as skipped
UfConflict ==
  /\ stats' = CountSkipped(stats, file_size)
  /\ outcome' = "skipped_409"
  /\ pc' = "uf_done"
  /\ UNCHANGED << uf_attempt, fatal, slept >>

\* lines 334-340: the upload answers 409
UfPost409 ==
  /\ pc = "uf_post"
  /\ NameTaken(current_parent, file_name)
  /\ SendOnLocal
  /\ reqs' = [reqs EXCEPT !.up = @ + 1]
  /\ saw409' = TRUE
  /\ UfConflict
  /\ UNCHANGED << remote, runvars, conflicts, walkpos, session, open, local_session, start_time,
                  attempt, made, uf_made, fails, stats0, report >>

\* lines 325-326 fail with a transient error; the remote may have stored the
\* file before the error reached the client
UfPostFail ==
  /\ pc = "uf_post"
  /\ SendOnLocal
  /\ \E applied \in BOOLEAN :
       files' = IF applied /\ ~NameTaken(current_parent, file_name)
                  THEN files \cup {Append(current_parent, file_name)}
                  ELSE files
  /\ reqs' = [reqs EXCEPT !.up = @ + 1]
  /\ fails' = [fails EXCEPT !.up = @ + 1]
  /\ UfTransient
  /\ UNCHANGED << folders, writes, runvars, conflicts, walkpos, stats, session, open,
                  local_session, start_time, attempt, made, uf_made, saw409,
                  stats0, outcome, report >>

\* upload_file has returned: `for file in files` goes on
UfDone ==
  /\ pc = "uf_done"
  /\ fi' = fi + 1
  /\ local_session' = 0
  /\ pc' = "files"
  /\ UNCHANGED << remote, runvars, conflicts, di, pi, current_parent, resolved, stats, session,
                  open, start_time, attempt, uf_attempt, made, uf_made, fails, reqs,
                  saw409, fatal, stats0, outcome, slept, closed_use, report >>

\* ------------------------------------------------------------------- run
\* variant: the finally clause does not close the session
FinalCloseMissing(o, s) == o

\* lines 468-469: `if self.session: self.session.close()`
FinalClose(o, s) == IF s # 0 THEN ClosePrevious(o, s) ELSE o

\* variant: the report is shown at the end of the try block, not in finally
ReportOnSuccessOnly(r, s) == IF fatal = "none" THEN Append(r, s) ELSE r

\* show_final_report prints the statistics as they stand
show_final_report(r, s) == Append(r, s)

\* success_rate of show_final_report, in whole percent
SuccessRate(s) ==
  LET processed_files == s.uploaded_files + s.skipped_files IN
  IF processed_files > 0 THEN (s.uploaded_files * 100) \div processed_files ELSE 0

\* lines 462-471: the session is closed and the final report shown
Finally ==
  /\ pc = "finally"
  /\ open' = FinalClose(open, session)
  /\ report' = show_final_report(report, stats)
  /\ pc' = "done"
  /\ UNCHANGED << remote, runvars, conflicts, walkpos, stats, session, local_session,
                  start_time, attempt, uf_attempt, made, uf_made, fails, reqs,
                  saw409, fatal, stats0, outcome, slept, closed_use >>

\* the program is started again: UploadManager() and run() (lines 474-476)
NextRun ==
  /\ pc = "done"
  /\ run < MaxRuns
  /\ run' = run + 1
  /\ prev' = [ok |-> fatal = "none", total_files |-> stats.total_files,
              total_size_bytes |-> stats.total_size_bytes]
  /\ start_empty' = RemoteIsEmpty
  /\ conflicts' = {}
  /\ pc' = "gd_try"
  /\ stats' = InitialStats
  /\ session' = 0
  /\ open' = {}
  /\ local_session' = 0
  /\ start_time' = FALSE
  /\ di' = 1 /\ pi' = 1 /\ fi' = 1
  /\ current_parent' = DocLib
  /\ resolved' = << >>
  /\ attempt' = 0
  /\ uf_attempt' = 0
  /\ made' = 0
  /\ uf_made' = 0
  /\ fails' = NoCounts
  /\ reqs' = NoCounts
  /\ saw409' = FALSE
  /\ fatal' = "none"
  /\ stats0' = InitialStats
  /\ outcome' = "none"
  /\ slept' = 0
  /\ closed_use' = FALSE
  /\ report' = << >>
  /\ UNCHANGED << tree, remote >>

\* ------------------------------------------------------------ environment
\* another writer adds a folder or a file to the remote during the first run,
\* in the folder the walk is working in
OtherWriter ==
  /\ run = 1
  /\ pc \notin {"finally", "done"}
  /\ writes < MaxWrites
  /\ \E name \in Names, isFolder \in BOOLEAN :
       /\ ~NameTaken(current_parent, name)
       /\ IF isFolder
            THEN /\ folders' = folders \cup {Append(current_parent, name)}
                 /\ files' = files
            ELSE /\ files' = files \cup {Append(current_parent, name)}
                 /\ folders' = folders
  /\ writes' = writes + 1
  /\ UNCHANGED << runvars, conflicts, walkpos, pc, stats, session, open, local_session,
                  start_time, attempt, uf_attempt, made, uf_made, fails, reqs,
                  saw409, fatal, stats0, outcome, slept, closed_use, report >>

Next ==
  \/ GdTry \/ GdGetOk \/ GdGetFail
  \/ Scan \/ WalkDir \/ Parts \/ Files
  \/ EfTry \/ EfGetOk \/ EfGetFail \/ EfPostOk \/ EfPost409 \/ EfPostFail
  \/ EfRequeryOk \/ EfRequeryFail \/ EfRequery2Ok \/ EfRequery2Fail
  \/ UfBegin \/ UfTry \/ FeTry \/ FeGetOk \/ FeGetFail
  \/ UfPostOk \/ UfPost409 \/ UfPostFail \/ UfDone
  \/ Finally
  \/ OtherWriter

\* one invocation of the program
Spec == Init /\ [][Next]_vars

\* the steps of the program itself: one sequential process, which takes its
\* next step whenever it has one (every request is answered, every sleep ends)
ProgramStep ==
  \/ GdTry \/ GdGetOk \/ GdGetFail
  \/ Scan \/ WalkDir \/ Parts \/ Files
  \/ EfTry \/ EfGetOk \/ EfGetFail \/ EfPostOk \/ EfPost409 \/ EfPostFail
  \/ EfRequeryOk \/ EfRequeryFail \/ EfRequery2Ok \/ EfRequery2Fail
  \/ UfBegin \/ UfTry \/ FeTry \/ FeGetOk \/ FeGetFail
  \/ UfPostOk \/ UfPost409 \/ UfPostFail \/ UfDone
  \/ Finally

\* the other writer takes the very name the program is about to create,
\* between the listing that did not show it and the create or upload request
RacingWriter ==
  /\ pc \in {"ef_post", "uf_post"}
  /\ OtherWriter
  /\ NameTaken(current_parent, IF pc = "uf_post" THEN file_name ELSE folder_name)'

NextLive == ProgramStep \/ RacingWriter

\* one invocation in which the program keeps taking steps, whatever the
\* remote answers
SpecLive == Init /\ [][NextLive]_vars /\ WF_vars(ProgramStep)

\* one invocation with a remote that never fails and has no other writer
NextNoFaults ==
  \/ GdTry \/ GdGetOk
  \/ Scan \/ WalkDir \/ Parts \/ Files
  \/ EfTry \/ EfGetOk \/ EfPostOk \/ EfPost409 \/ EfRequeryOk \/ EfRequery2Ok
  \/ UfBegin \/ UfTry \/ FeTry \/ FeGetOk
  \/ UfPostOk \/ UfPost409 \/ UfDone
  \/ Finally

SpecNoFaults == Init /\ [][NextNoFaults]_vars

\* invocations in a row against the same remote
NextTwice == Next \/ NextRun

SpecTwice == Init /\ [][NextTwice]_vars


\* ================================================================ claims
UploadPositions == {"uf_begin", "uf_try", "fe_try", "fe_get", "uf_post", "uf_done"}
\* processed_files and processed_size of update_progress and show_final_report
Processed == stats.uploaded_files + stats.skipped_files
ProcessedBytes == stats.uploaded_size_bytes + stats.skipped_size_bytes

\* C1: every ref ensure_folder has returned denotes a remote folder that is
\* the child of the parent it was called with and has the name it was called
\* with, on every path (found, created, looked up after a 409).
C1_ReturnedRefIsNamedChild ==
  \A i \in 1..Len(resolved) :
    /\ resolved[i].ref = Append(resolved[i].parent, resolved[i].name)
    /\ resolved[i].ref \in folders

\* C2: an operation that received a 409 never ends the run with a fatal error.
C2_ConflictNeverFatal == ~(saw409 /\ fatal # "none")

\* C3: when a run has ended without a fatal error, every local file is counted
\* once: uploaded + skipped = total, for the files and for the bytes.
C3_Completeness ==
  (pc = "done" /\ fatal = "none") =>
     /\ Processed = stats.total_files
     /\ ProcessedBytes = stats.total_size_bytes

\* C3 witness: a run of two files ended without fatal error, one uploaded and
\* one skipped, the last after a transient upload failure and a 409.
C3_Witness ==
  /\ pc = "done" /\ fatal = "none"
  /\ stats.total_files = 2
  /\ stats.uploaded_files = 1 /\ stats.skipped_files = 1
  /\ saw409 /\ fails.up > 0

\* C4: once a request for a folder or file has failed transiently MaxRetries
\* times the run is aborted, and no request is issued more than MaxRetries
\* times for the same folder or file.
C4_ExhaustedIsFatal ==
  \A k \in {"ef", "fe", "up"} :
    /\ fails[k] >= MaxRetries => fatal # "none"
    /\ reqs[k] <= MaxRetries

\* C5: a transient failure of a request made for a folder or a file aborts
\* the run only when MaxRetries requests for it have failed; a single
\* transient failure never does.
C5_TransientRecovered ==
  fatal \in {"ensure_folder", "requery", "upload_file"} =>
    \E k \in {"ef", "fe", "up"} : fails[k] >= MaxRetries

\* C6: a second run that follows a successful first run and ends without a
\* fatal error creates no folder and uploads no file, skips every file, and
\* sees the same totals.
C6_SecondRunSkipsAll ==
  (run = 2 /\ prev.ok /\ pc = "done" /\ fatal = "none") =>
     /\ stats.created_folders = 0
     /\ stats.uploaded_files = 0
     /\ stats.skipped_files = stats.total_files
     /\ stats.skipped_size_bytes = stats.total_size_bytes
     /\ stats.total_files = prev.total_files
     /\ stats.total_size_bytes = prev.total_size_bytes

\* C7: an upload_file call whose requests failed transiently MaxRetries - 1
\* times in all and whose upload then succeeded has raised uploaded_files by
\* one and uploaded_size_bytes by the file size, and no skipped counter.
C7_RetriedUploadCountedOnce ==
  (pc = "uf_done" /\ outcome = "uploaded"
     /\ fails.fe + fails.up = MaxRetries - 1) =>
     /\ stats.uploaded_files = stats0.uploaded_files + 1
     /\ stats.uploaded_size_bytes = stats0.uploaded_size_bytes + file_size
     /\ stats.skipped_files = stats0.skipped_files
     /\ stats.skipped_size_bytes = stats0.skipped_size_bytes

\* C7 witness: one failure of the existence check and one of the upload, then success
C7_Witness ==
  /\ pc = "uf_done" /\ outcome = "uploaded"
  /\ fails.fe = 1 /\ fails.up = 1

\* C8: while upload_file is at work on a file, ensure_folder has returned for
\* every segment of the directory's path, each called with the ref returned
\* for the segment before it, and the parent used is the last ref returned.
C8_FolderBeforeFile ==
  pc \in UploadPositions =>
     /\ Len(resolved) = Len(parts)
     /\ \A i \in 1..Len(resolved) :
          /\ resolved[i].name = parts[i]
          /\ resolved[i].parent = IF i = 1 THEN DocLib ELSE resolved[i - 1].ref
     /\ current_parent = IF parts = << >> THEN DocLib
                         ELSE resolved[Len(resolved)].ref

\* C8 witness: an upload request two levels down, the first level resolved by a 409
C8_Witness ==
  /\ pc = "uf_post"
  /\ Len(parts) = 2 /\ Len(resolved) = 2
  /\ resolved[1].by = "conflict"

\* C9: after the pre-scan the processed files and bytes never exceed the totals.
C9_ProcessedWithinTotals ==
  pc \notin {"gd_try", "gd_get", "scan"} =>
     /\ Processed <= stats.total_files
     /\ ProcessedBytes <= stats.total_size_bytes

\* C9 witness: an aborted run that had processed one of its two files
C9_Witness ==
  /\ pc = "done" /\ fatal = "upload_file"
  /\ stats.total_files = 2 /\ Processed = 1

\* C10: the only session that can be open is self.session, and every attempt
\* of a retry loop has constructed its own session before its requests.
C10_OneOpenSession ==
  /\ Cardinality(open) <= 1
  /\ open \subseteq {session}
  /\ pc \in {"gd_get", "ef_get", "ef_post", "ef_requery", "ef_requery2", "fe_get"}
       => made = attempt + 1
  /\ pc \in {"fe_try", "fe_get", "uf_post"} => uf_made = uf_attempt + 1

\* C10 witness: the second attempt of upload_file, its own session replaced
\* by the one file_exists constructed
C10_Witness ==
  /\ pc = "uf_post" /\ uf_attempt = 1
  /\ open = {session}
  /\ local_session # session

\* the directories os.walk yields below LOCAL_DIR, at any depth
NumSubdirs(w) == Cardinality({ i \in 1..Len(w) : w[i].path # << >> })

\* the number of ensure_folder calls of a complete walk: every directory
\* ensures each segment of its relative path
RECURSIVE SumDepths(_)
SumDepths(w) ==
  IF w = << >> THEN 0 ELSE Len(Head(w).path) + SumDepths(Tail(w))

\* os.path.getsize works for every file of the walk
AllReadable(w) ==
  \A i \in 1..Len(w) : \A k \in 1..Len(w[i].files) : w[i].files[k].readable

\* C11: when run() has ended, however it ended, no session is open.
C11_NoSessionLeftOpen ==
  pc = "done" => open = {}

\* C11 witness: a run aborted by a fatal error of the walk, whose last session
\* was constructed and is closed
C11_Witness ==
  /\ pc = "done" /\ fatal \in {"ensure_folder", "not_found", "upload_file"}
  /\ session # 0 /\ open = {}

\* C12: no report is produced before the finally clause; the finally clause
\* appends exactly one report, equal to the statistics as they stood when it
\* was entered, and changes no counter; a finished run has exactly one report.
C12_ReportOnceWithCountersAtAbort ==
  /\ [](pc # "done" => report = << >>)
  /\ [](pc = "done" => report = << stats >>)
  /\ [][pc = "finally" /\ pc' = "done" => report' = << stats >> /\ stats' = stats]_vars
  /\ [][fatal = "none" /\ fatal' # "none" => pc' = "finally" /\ stats' = stats]_vars

\* C12 witness: an aborted run whose report shows the one file uploaded
\* before the abort
C12_Witness ==
  /\ pc = "done" /\ fatal # "none"
  /\ Len(report) = 1
  /\ report[1].uploaded_files = 1 /\ report[1].total_files = 2

C14_ConflictNotRetried ==
  /\ [](pc = "ef_post" => << current_parent, folder_name >> \notin conflicts)
  /\ [][saw409 /\ saw409' =>
          /\ slept' = slept /\ reqs' = reqs
          /\ pc' \notin {"ef_try", "ef_get", "ef_post", "uf_try", "fe_try", "fe_get",
                          "uf_post"}]_vars

\* C15: during one upload_file call the existence check is issued again only
\* after an existence check failed, and the upload request only after an
\* upload request failed.
C15_OnlyFailedCallReissued ==
  pc \in {"uf_try", "fe_try", "fe_get", "uf_post", "uf_done"} =>
     /\ reqs.fe <= fails.fe + 1
     /\ reqs.up <= fails.up + 1

\* C16: once a fatal error has been raised the only step left is the finally
\* clause: no counter changes, no request is counted, the walk position, the
\* resolved folders and the remote tree stay as they are.
C16_WalkAbandoned ==
  [][fatal # "none" /\ pc' # pc =>
       /\ pc = "finally" /\ pc' = "done"
       /\ stats' = stats /\ reqs' = reqs
       /\ di' = di /\ pi' = pi /\ fi' = fi
       /\ resolved' = resolved /\ current_parent' = current_parent
       /\ folders' = folders /\ files' = files]_vars

\* C16 witness: a run aborted by ensure_folder before the last directory of
\* the walk
C16_Witness ==
  /\ pc = "done" /\ fatal \in {"ensure_folder", "requery", "not_found"}
  /\ di < Len(walk)

\* C17: a retry loop that goes on to its attempt k + 1 (k = 1, 2) has slept
\* 5 * k seconds in get_document_library_node and 900 * k seconds in
\* ensure_folder, file_exists and upload_file; a step that starts no further
\* attempt sleeps not at all.
C17_LinearBackoff ==
  [][/\ attempt' = attempt + 1 =>
          /\ attempt' \in 1..2
          /\ slept' = (IF pc = "gd_get" THEN 5 ELSE 900) * attempt'
     /\ uf_attempt' = uf_attempt + 1 =>
          /\ uf_attempt' \in 1..2
          /\ slept' = 900 * uf_attempt'
     /\ (attempt' # attempt + 1 /\ uf_attempt' # uf_attempt + 1) =>
          slept' \in {slept, 0}]_vars

\* C17 witness: ensure_folder about to make its third attempt after a sleep
\* of 1800 seconds
C17_Witness ==
  /\ pc = "ef_try" /\ attempt = 2 /\ fails.ef = 2
  /\ slept = 1800

\* C18: no request has been sent on a closed session, and the upload request
\* is sent on the manager's current session.
C18_NoRequestOnClosedSession ==
  /\ ~closed_use
  /\ pc = "uf_post" => local_session = session

\* C19: an ensure_folder call that has returned has added 1 to exactly one of
\* created_folders and skipped_folders, and one that ended with an error
\* has changed neither.
C19_FolderCountersOnce ==
  /\ (pc = "parts" /\ resolved # << >>) =>
        \/ /\ stats.created_folders = stats0.created_folders + 1
           /\ stats.skipped_folders = stats0.skipped_folders
        \/ /\ stats.created_folders = stats0.created_folders
           /\ stats.skipped_folders = stats0.skipped_folders + 1
  /\ fatal \in {"ensure_folder", "requery", "not_found"} =>
        /\ stats.created_folders = stats0.created_folders
        /\ stats.skipped_folders = stats0.skipped_folders

\* C20: a successful run, none of whose create-folder requests was answered
\* 409, ends with created_folders + skipped_folders equal to the sum of the
\* depths of the local subdirectories; started on an empty remote it has
\* skipped at least one folder when a directory lies two levels deep.
C20_FolderCountersSumDepths ==
  (pc = "done" /\ fatal = "none" /\ conflicts = {}) =>
     /\ stats.created_folders + stats.skipped_folders = SumDepths(walk)
     /\ (start_empty /\ \E i \in 1..Len(walk) : Len(walk[i].path) >= 2) =>
          stats.skipped_folders > 0

\* C20 witness: root/{a/{g, b/f}, b/} on an empty remote: three folders
\* created, folder a ensured a second time for a/b
C20_Witness ==
  /\ pc = "done" /\ fatal = "none" /\ conflicts = {}
  /\ tree = 2 /\ start_empty
  /\ stats.created_folders = 3 /\ stats.skipped_folders = 1

\* C21: the run reaches its end, and no ensure_folder call makes more than
\* 3 attempts, no upload_file call more than 3 upload requests and 3 * 3
\* existence checks.
C21_RunTerminates ==
  /\ <>(pc = "done")
  /\ [](/\ reqs.ef <= MaxRetries
        /\ reqs.up <= MaxRetries
        /\ reqs.fe <= MaxRetries * MaxRetries
        /\ attempt < MaxRetries /\ uf_attempt < MaxRetries)

\* C21 witness: a run that ended after the existence check of one file had
\* failed in all three attempts of each of the three attempts of upload_file
C21_Witness ==
  /\ pc = "done" /\ fatal = "upload_file"
  /\ reqs.fe = 9 /\ fails.fe = 9

====
